---- MODULE Spec2Model ----
(***************************************************************************)
(* The eBPF opcode model of package asm (opcode.go): an OpCode is a uint32 *)
(* whose low three bits are the Class and whose other bits are read and    *)
(* written facet by facet under a mask chosen by the class.                *)
(*                                                                         *)
(* A value is modelled as the set of positions of its one bits, so that    *)
(* the code's &, | and ^mask are set intersection, union and complement    *)
(* within the word, exactly, at the full width of the Go type.             *)
(*                                                                         *)
(* Two further components are modelled beside it, each with a              *)
(* specification of its own: ResolveConfigurations of package resolver     *)
(* (ResolverSpec) and the service registry of the Envoy backend syncer     *)
(* (SyncerSpec).  A specification moves the variables of its component and *)
(* holds the others at their idle values.                                  *)
(***************************************************************************)
EXTENDS Integers, FiniteSets, Sequences, TLC

\* the OpCode under construction
VARIABLES op, prev, setter, arg, failed

\* ResolveConfigurations: its parameters, its locals, the maps its reads
\* returned so far, and where it stands
VARIABLES sources, allowConfigKeys, denyConfigKeys, idx, first, config,
          sourceDescriptions, read, rpc

\* readNodeConfigsAllVersions: what the API server holds for each version
\* of CiliumNodeConfig, what each read returned, the result, and where the
\* call stands
VARIABLES apiv2, apiv2alpha1, readv2, readv2alpha1, nodeConfigs, pcNode

\* envoyServiceBackendSyncer: the registry, the pairs registered and not
\* deregistered since, the last call with its result, the registry before it
VARIABLES l7lbSvcs, live, call, before

\* a call of Sync: where it stands, its service, the ports it read under
\* the lock, and the last UpsertEnvoyResources with whether its service
\* was in the registry at that moment
VARIABLES pcSync, svcSync, frontendPortsSync, upsert

opVars == <<op, prev, setter, arg, failed>>

nodeConfigVars == <<apiv2, apiv2alpha1, readv2, readv2alpha1, nodeConfigs, pcNode>>

resolverVars == <<sources, allowConfigKeys, denyConfigKeys, idx, first, config,
                  sourceDescriptions, read, rpc, nodeConfigVars>>

syncVars == <<pcSync, svcSync, frontendPortsSync, upsert>>

syncerVars == <<l7lbSvcs, live, call, before, syncVars>>

vars == <<opVars, resolverVars, syncerVars>>

\* a map without keys
EmptyMap == [k \in {} |-> ""]

OpCodeIdle ==
    /\ op = {}
    /\ prev = {}
    /\ setter = "new"
    /\ arg = {}
    /\ failed = FALSE

\* what a read of CiliumNodeConfig objects returns when there is nothing
NoNodeConfigs == [isNil |-> TRUE, config |-> EmptyMap, descs |-> <<>>, err |-> FALSE]

\* an API server with no CiliumNodeConfig object
NoObjects == [err |-> "none", items |-> {}, nodeErr |-> FALSE]

NodeConfigIdle ==
    /\ apiv2 = NoObjects
    /\ apiv2alpha1 = NoObjects
    /\ readv2 = NoNodeConfigs
    /\ readv2alpha1 = NoNodeConfigs
    /\ nodeConfigs = NoNodeConfigs
    /\ pcNode = "idle"

ResolveConfigurationsIdle ==
    /\ sources = <<>>
    /\ allowConfigKeys = <<>>
    /\ denyConfigKeys = <<>>
    /\ idx = 0
    /\ first = TRUE
    /\ config = EmptyMap
    /\ sourceDescriptions = <<>>
    /\ read = <<>>
    /\ rpc = "idle"

ResolverIdle == ResolveConfigurationsIdle /\ NodeConfigIdle

SyncerIdle ==
    /\ l7lbSvcs = EmptyMap
    /\ live = {}
    /\ call = [name |-> "none", svcName |-> "", resourceName |-> "", ret |-> FALSE]
    /\ before = EmptyMap
    /\ pcSync = "idle"
    /\ svcSync = ""
    /\ frontendPortsSync = {}
    /\ upsert = [svcName |-> "", registered |-> TRUE, afterDeregister |-> FALSE]

----------------------------------------------------------------------------
(* Words as bit sets *)

\* type OpCode uint32
OpCodeWidth == 32

Word32 == 0 .. (OpCodeWidth - 1)

RECURSIVE BitsFrom(_, _)
BitsFrom(n, i) ==
    IF n = 0 THEN {}
    ELSE (IF n % 2 = 1 THEN {i} ELSE {}) \cup BitsFrom(n \div 2, i + 1)

\* the word whose value is the natural number n
Bits(n) == BitsFrom(n, 0)

And(a, b) == a \cap b
Or(a, b) == a \cup b
\* ^mask on an OpCode
Not(m) == Word32 \ m

\* valid testing the value against the low byte, whatever the mask
validLowByte(value, mask) == And(value, Not(Bits(255))) = {}

\* valid returns true if all bits in value are covered by mask.
valid(value, mask) == And(value, Not(mask)) = {}

----------------------------------------------------------------------------
(* Class *)

classMask == Bits(7)

LdClass == Bits(0)
LdXClass == Bits(1)
StClass == Bits(2)
StXClass == Bits(3)
ALUClass == Bits(4)
JumpClass == Bits(5)
Jump32Class == Bits(6)
ALU64Class == Bits(7)

Classes == {LdClass, LdXClass, StClass, StXClass,
            ALUClass, JumpClass, Jump32Class, ALU64Class}

IsLoad(cls) == cls = LdClass \/ cls = LdXClass
IsStore(cls) == cls = StClass \/ cls = StXClass
isLoadOrStore(cls) == IsLoad(cls) \/ IsStore(cls)
IsALU(cls) == cls = ALUClass \/ cls = ALU64Class
IsJump(cls) == cls = JumpClass \/ cls = Jump32Class
isJumpOrALU(cls) == IsJump(cls) \/ IsALU(cls)

----------------------------------------------------------------------------
(* Facet masks and facet values.  They are declared in load_store.go,      *)
(* alu.go and jump.go; the layout comment of OpCode places the fields:     *)
(* CLS bits 0-2, SIZ bits 3-4, MDE bits 5-7, S bit 3, the jump OPC bits    *)
(* 4-7 and the ATOMIC OP field bits 8-16.  The ALU OPC field is taken as   *)
(* the high nibble of the opcode byte (mask 0xf0).                         *)

modeMask == Bits(224)        \* 0xe0, bits 5-7
sizeMask == Bits(24)         \* 0x18, bits 3-4
sourceMask == Bits(8)        \* 0x08, bit 3
endianMask == sourceMask
aluMask == Bits(240)         \* 0xf0
jumpMask == Bits(240)        \* 0xf0
atomicMask == Bits(130816)   \* 0x0001ff00, bits 8-16

InvalidMode == Bits(255)
ImmMode == Bits(0)
AbsMode == Bits(32)
IndMode == Bits(64)
MemMode == Bits(96)
MemSXMode == Bits(128)
XAddMode == Bits(192)
AtomicMode == Bits(192)

InvalidSize == Bits(255)
DWord == Bits(24)
Byte == Bits(16)
Half == Bits(8)
Word == Bits(0)

InvalidSource == Bits(65535)
ImmSource == Bits(0)
RegSource == Bits(8)

InvalidEndian == Bits(255)
LE == Bits(0)
BE == Bits(8)

InvalidALUOp == Bits(65535)
Add == Bits(0)
Sub == Bits(16)
Mul == Bits(32)
Div == Bits(48)
OrOp == Bits(64)
AndOp == Bits(80)
LSh == Bits(96)
RSh == Bits(112)
Neg == Bits(128)
Mod == Bits(144)
Xor == Bits(160)
Mov == Bits(176)
ArSh == Bits(192)
Swap == Bits(208)

InvalidJumpOp == Bits(255)
Ja == Bits(0)
JEq == Bits(16)
JGT == Bits(32)
JGE == Bits(48)
JSet == Bits(64)
JNE == Bits(80)
JSGT == Bits(96)
JSGE == Bits(112)
Call == Bits(128)
Exit == Bits(144)
JLT == Bits(160)
JLE == Bits(176)
JSLT == Bits(192)
JSLE == Bits(208)

\* AtomicOp is a uint32: the flavour in bits 4-7 of the field, the fetch
\* bit in bit 0 of the field, the field starting at bit 8 of the OpCode.
InvalidAtomic == Word32
fetch == Bits(256)
AddAtomic == Bits(0)
FetchAdd == Or(AddAtomic, fetch)
AndAtomic == Bits(20480)
FetchAnd == Or(AndAtomic, fetch)
OrAtomic == Bits(16384)
FetchOr == Or(OrAtomic, fetch)
XorAtomic == Bits(40960)
FetchXor == Or(XorAtomic, fetch)
XchgAtomic == Or(Bits(57344), fetch)
CmpXchgAtomic == Or(Bits(61440), fetch)

\* InvalidOpCode is returned by setters on OpCode
InvalidOpCode == Bits(65535)

----------------------------------------------------------------------------
(* Projections and getters *)

opCodeMask == Bits(255)

\* bpfOpCode without the check of the reserved bits
bpfOpCodeNoCheck(o) == [byte |-> And(o, opCodeMask), err |-> FALSE]

\* bpfOpCode returns (byte, error): err with byte 0, or the low byte
bpfOpCode(o) ==
    IF ~valid(o, opCodeMask)
    THEN [byte |-> Bits(0), err |-> TRUE]
    ELSE [byte |-> And(o, opCodeMask), err |-> FALSE]

Class(o) == And(o, classMask)

\* Mode reading the size bits as well
ModeWithSize(o) ==
    IF ~isLoadOrStore(Class(o)) THEN InvalidMode
    ELSE And(o, Or(modeMask, sizeMask))

Mode(o) ==
    IF ~isLoadOrStore(Class(o)) THEN InvalidMode ELSE And(o, modeMask)

Size(o) ==
    IF ~isLoadOrStore(Class(o)) THEN InvalidSize ELSE And(o, sizeMask)

\* AtomicOp gated on the class alone
AtomicOpNoMode(o) ==
    IF Class(o) # StXClass THEN InvalidAtomic ELSE And(o, atomicMask)

AtomicOp(o) ==
    IF Class(o) # StXClass \/ Mode(o) # AtomicMode
    THEN InvalidAtomic
    ELSE And(o, atomicMask)

ALUOp(o) ==
    IF ~IsALU(Class(o)) THEN InvalidALUOp ELSE And(o, aluMask)

\* Source reading the bit on a Swap opcode too
SourceNoSwap(o) ==
    IF ~isJumpOrALU(Class(o)) THEN InvalidSource ELSE And(o, sourceMask)

Source(o) ==
    IF ~isJumpOrALU(Class(o)) \/ ALUOp(o) = Swap
    THEN InvalidSource
    ELSE And(o, sourceMask)

Endianness(o) ==
    IF ALUOp(o) # Swap THEN InvalidEndian ELSE And(o, endianMask)

\* JumpOp without the Jump32Class restriction
JumpOpNoRestriction(o) ==
    IF ~IsJump(Class(o)) THEN InvalidJumpOp ELSE And(o, jumpMask)

\* JumpOp with Ja added to the ops Jump32Class does not support
JumpOpRejectJa(o) ==
    IF ~IsJump(Class(o)) THEN InvalidJumpOp
    ELSE LET jumpOp == And(o, jumpMask) IN
         IF Class(o) = Jump32Class /\ (jumpOp = Exit \/ jumpOp = Call \/ jumpOp = Ja)
         THEN InvalidJumpOp
         ELSE jumpOp

JumpOp(o) ==
    IF ~IsJump(Class(o)) THEN InvalidJumpOp
    ELSE LET jumpOp == And(o, jumpMask) IN
         IF Class(o) = Jump32Class /\ (jumpOp = Exit \/ jumpOp = Call)
         THEN InvalidJumpOp
         ELSE jumpOp

----------------------------------------------------------------------------
(* Setters: each returns a new OpCode, or InvalidOpCode *)

\* SetMode clearing the size bits along with the mode bits
SetModeClearsSize(o, mode) ==
    IF ~isLoadOrStore(Class(o)) \/ ~valid(mode, modeMask)
    THEN InvalidOpCode
    ELSE Or(And(o, Not(Or(modeMask, sizeMask))), mode)

SetMode(o, mode) ==
    IF ~isLoadOrStore(Class(o)) \/ ~valid(mode, modeMask)
    THEN InvalidOpCode
    ELSE Or(And(o, Not(modeMask)), mode)

\* SetSize without the mask check
SetSizeNoValid(o, size) ==
    IF ~isLoadOrStore(Class(o))
    THEN InvalidOpCode
    ELSE Or(And(o, Not(sizeMask)), size)

SetSize(o, size) ==
    IF ~isLoadOrStore(Class(o)) \/ ~valid(size, sizeMask)
    THEN InvalidOpCode
    ELSE Or(And(o, Not(sizeMask)), size)

\* SetAtomicOp writing over the size bits as well
SetAtomicOpClearsSize(o, atomic) ==
    IF Class(o) # StXClass \/ Mode(o) # AtomicMode \/ ~valid(atomic, atomicMask)
    THEN InvalidOpCode
    ELSE Or(And(o, Not(Or(atomicMask, sizeMask))), atomic)

SetAtomicOp(o, atomic) ==
    IF Class(o) # StXClass \/ Mode(o) # AtomicMode \/ ~valid(atomic, atomicMask)
    THEN InvalidOpCode
    ELSE Or(And(o, Not(atomicMask)), atomic)

\* SetSource without the class check
SetSourceNoClass(o, source) ==
    IF ~valid(source, sourceMask)
    THEN InvalidOpCode
    ELSE Or(And(o, Not(sourceMask)), source)

\* SetSource keeping the source bit the receiver has, once it is set
SetSourceSticky(o, source) ==
    IF ~isJumpOrALU(Class(o)) \/ ~valid(source, sourceMask)
    THEN InvalidOpCode
    ELSE Or(o, source)

SetSource(o, source) ==
    IF ~isJumpOrALU(Class(o)) \/ ~valid(source, sourceMask)
    THEN InvalidOpCode
    ELSE Or(And(o, Not(sourceMask)), source)

\* SetALUOp clearing every bit above the low byte
SetALUOpClearsHigh(o, alu) ==
    IF ~IsALU(Class(o)) \/ ~valid(alu, aluMask)
    THEN InvalidOpCode
    ELSE Or(And(o, And(opCodeMask, Not(aluMask))), alu)

SetALUOp(o, alu) ==
    IF ~IsALU(Class(o)) \/ ~valid(alu, aluMask)
    THEN InvalidOpCode
    ELSE Or(And(o, Not(aluMask)), alu)

\* SetJumpOp returning newOp without re-reading its JumpOp
SetJumpOpNoRecheck(o, jump) ==
    IF ~IsJump(Class(o)) \/ ~valid(jump, jumpMask)
    THEN InvalidOpCode
    ELSE Or(And(o, Not(jumpMask)), jump)

SetJumpOp(o, jump) ==
    IF ~IsJump(Class(o)) \/ ~valid(jump, jumpMask)
    THEN InvalidOpCode
    ELSE LET newOp == Or(And(o, Not(jumpMask)), jump) IN
         \* Check newOp is legal.
         IF JumpOp(newOp) = InvalidJumpOp THEN InvalidOpCode ELSE newOp

----------------------------------------------------------------------------
(* Constructors (load_store.go, alu.go, jump.go): a class with its facets  *)
(* set through the setters above.                                          *)

LoadMemOp(size) == SetSize(SetMode(LdXClass, MemMode), size)
LoadMemSXOp(size) == SetSize(SetMode(LdXClass, MemSXMode), size)
LoadImmOp(size) == SetSize(SetMode(LdClass, ImmMode), size)
LoadIndOp(size) == SetSize(SetMode(LdClass, IndMode), size)
LoadAbsOp(size) == SetSize(SetMode(LdClass, AbsMode), size)
StoreMemOp(size) == SetSize(SetMode(StXClass, MemMode), size)
StoreImmOp(size) == SetSize(SetMode(StClass, MemMode), size)
StoreXAddOp(size) == SetSize(SetMode(StXClass, XAddMode), size)

opALU(alu, class) == SetSource(SetALUOp(class, alu), ImmSource)

opJump(jump, class) ==
    IF class = Jump32Class /\ jump \in {Exit, Call, Ja}
    THEN InvalidOpCode
    ELSE SetSource(SetJumpOp(class, jump), ImmSource)

\* IsDWordLoad comparing mode and size but not the class
IsDWordLoadAnyClass(o) == Mode(o) = ImmMode /\ Size(o) = DWord

IsDWordLoad(o) == o = LoadImmOp(DWord)

\* rawInstructions returns the number of BPF instructions required
\* to encode this opcode.
rawInstructions(o) == IF IsDWordLoad(o) THEN 2 ELSE 1

----------------------------------------------------------------------------
(* Mnemonics.  String() concatenates the names of the facets; the names    *)
(* are those of the String methods of the facet types: the identifier of   *)
(* the constant, and Type(n) for a value that has no constant.             *)

\* the number a word denotes (words below 2^31 only)
RECURSIVE ValFrom(_, _)
ValFrom(w, i) ==
    IF i >= OpCodeWidth THEN 0
    ELSE (IF i \in w THEN 2 ^ i ELSE 0) + ValFrom(w, i + 1)

Val(w) == ValFrom(w, 0)

RECURSIVE Hex(_)
Hex(n) ==
    IF n < 16 THEN SubSeq("0123456789abcdef", n + 1, n + 1)
    ELSE Hex(n \div 16) \o SubSeq("0123456789abcdef", (n % 16) + 1, (n % 16) + 1)

HasSuffix(s, suffix) ==
    /\ Len(s) >= Len(suffix)
    /\ SubSeq(s, Len(s) - Len(suffix) + 1, Len(s)) = suffix

TrimSuffix(s, suffix) ==
    IF HasSuffix(s, suffix) THEN SubSeq(s, 1, Len(s) - Len(suffix)) ELSE s

Contains(s, substr) ==
    \E i \in 1 .. (Len(s) - Len(substr) + 1) :
        SubSeq(s, i, i + Len(substr) - 1) = substr

ClassString(cls) ==
    CASE cls = LdClass -> "LdClass"
      [] cls = LdXClass -> "LdXClass"
      [] cls = StClass -> "StClass"
      [] cls = StXClass -> "StXClass"
      [] cls = ALUClass -> "ALUClass"
      [] cls = JumpClass -> "JumpClass"
      [] cls = Jump32Class -> "Jump32Class"
      [] cls = ALU64Class -> "ALU64Class"
      [] OTHER -> "Class(" \o ToString(Val(cls)) \o ")"

ModeString(mode) ==
    CASE mode = ImmMode -> "ImmMode"
      [] mode = AbsMode -> "AbsMode"
      [] mode = IndMode -> "IndMode"
      [] mode = MemMode -> "MemMode"
      [] mode = MemSXMode -> "MemSXMode"
      [] mode = AtomicMode -> "AtomicMode"
      [] mode = InvalidMode -> "InvalidMode"
      [] OTHER -> "Mode(" \o ToString(Val(mode)) \o ")"

SourceString(source) ==
    CASE source = ImmSource -> "ImmSource"
      [] source = RegSource -> "RegSource"
      [] source = InvalidSource -> "InvalidSource"
      [] OTHER -> "Source(" \o ToString(Val(source)) \o ")"

EndiannessString(e) ==
    CASE e = LE -> "LE"
      [] e = BE -> "BE"
      [] e = InvalidEndian -> "InvalidEndian"
      [] OTHER -> "Endianness(" \o ToString(Val(e)) \o ")"

ALUOpString(alu) ==
    CASE alu = Add -> "Add"
      [] alu = Sub -> "Sub"
      [] alu = Mul -> "Mul"
      [] alu = Div -> "Div"
      [] alu = OrOp -> "Or"
      [] alu = AndOp -> "And"
      [] alu = LSh -> "LSh"
      [] alu = RSh -> "RSh"
      [] alu = Neg -> "Neg"
      [] alu = Mod -> "Mod"
      [] alu = Xor -> "Xor"
      [] alu = Mov -> "Mov"
      [] alu = ArSh -> "ArSh"
      [] alu = Swap -> "Swap"
      [] alu = InvalidALUOp -> "InvalidALUOp"
      [] OTHER -> "ALUOp(" \o ToString(Val(alu)) \o ")"

JumpOpString(jump) ==
    CASE jump = Ja -> "Ja"
      [] jump = JEq -> "JEq"
      [] jump = JGT -> "JGT"
      [] jump = JGE -> "JGE"
      [] jump = JSet -> "JSet"
      [] jump = JNE -> "JNE"
      [] jump = JSGT -> "JSGT"
      [] jump = JSGE -> "JSGE"
      [] jump = Call -> "Call"
      [] jump = Exit -> "Exit"
      [] jump = JLT -> "JLT"
      [] jump = JLE -> "JLE"
      [] jump = JSLT -> "JSLT"
      [] jump = JSLE -> "JSLE"
      [] jump = InvalidJumpOp -> "InvalidJumpOp"
      [] OTHER -> "JumpOp(" \o ToString(Val(jump)) \o ")"

\* the atomic op field holds an ALUOp shifted left by eight bits
ShiftRight8(w) == {i - 8 : i \in {j \in w : j >= 8}}

AtomicOpString(atomic) ==
    CASE atomic \in {AddAtomic, AndAtomic, OrAtomic, XorAtomic} ->
             ALUOpString(ShiftRight8(atomic))
      [] atomic \in {FetchAdd, FetchAnd, FetchOr, FetchXor} ->
             "Fetch" \o ALUOpString(ShiftRight8(atomic \ fetch))
      [] atomic = XchgAtomic -> "Xchg"
      [] atomic = CmpXchgAtomic -> "CmpXchg"
      [] OTHER -> "AtomicOp(0x" \o Hex(Val(atomic)) \o ")"

\* the size suffix without the case of DWord
SizeSuffixNoDWord(size) ==
    CASE size = Word -> "W"
      [] size = Half -> "H"
      [] size = Byte -> "B"
      [] OTHER -> ""

SizeSuffix(size) ==
    CASE size = DWord -> "DW"
      [] size = Word -> "W"
      [] size = Half -> "H"
      [] size = Byte -> "B"
      [] OTHER -> ""

\* the load/store mnemonic with the class name left whole
StringLoadStoreWholeClass(o) ==
    ClassString(Class(o))
    \o TrimSuffix(ModeString(Mode(o)), "Mode")
    \o (IF AtomicOp(o) # InvalidAtomic
        THEN TrimSuffix(AtomicOpString(AtomicOp(o)), "Atomic") ELSE "")
    \o SizeSuffix(Size(o))

StringLoadStore(o) ==
    TrimSuffix(ClassString(Class(o)), "Class")
    \o TrimSuffix(ModeString(Mode(o)), "Mode")
    \o (IF AtomicOp(o) # InvalidAtomic
        THEN TrimSuffix(AtomicOpString(AtomicOp(o)), "Atomic") ELSE "")
    \o SizeSuffix(Size(o))

\* the ALU mnemonic with the endianness written for Swap on either class
StringALUSwapAlwaysEndian(o) ==
    (IF ALUOp(o) = Swap /\ Class(o) = ALU64Class THEN "B" ELSE "")
    \o ALUOpString(ALUOp(o))
    \o (IF ALUOp(o) = Swap
        THEN EndiannessString(Endianness(o))
        ELSE TrimSuffix(SourceString(Source(o)), "Source")
             \o (IF Class(o) = ALUClass THEN "32" ELSE ""))

\* the ALU mnemonic with the width written before the source
StringALUWidthFirst(o) ==
    (IF ALUOp(o) = Swap /\ Class(o) = ALU64Class THEN "B" ELSE "")
    \o ALUOpString(ALUOp(o))
    \o (IF ALUOp(o) = Swap
        THEN (IF Class(o) = ALUClass
              THEN EndiannessString(Endianness(o)) ELSE "")
        ELSE (IF Class(o) = ALUClass THEN "32" ELSE "")
             \o TrimSuffix(SourceString(Source(o)), "Source"))

StringALU(o) ==
    (IF ALUOp(o) = Swap /\ Class(o) = ALU64Class THEN "B" ELSE "")
    \o ALUOpString(ALUOp(o))
    \o (IF ALUOp(o) = Swap
        THEN (IF Class(o) = ALUClass
              THEN EndiannessString(Endianness(o)) ELSE "")
        ELSE TrimSuffix(SourceString(Source(o)), "Source")
             \o (IF Class(o) = ALUClass THEN "32" ELSE ""))

\* the jump mnemonic with the source written for every JumpOp
StringJumpAlwaysSource(o) ==
    JumpOpString(JumpOp(o))
    \o (IF Class(o) = Jump32Class THEN "32" ELSE "")
    \o TrimSuffix(SourceString(Source(o)), "Source")

\* the jump mnemonic with the width written after the source
StringJumpSourceFirst(o) ==
    JumpOpString(JumpOp(o))
    \o (IF JumpOp(o) \notin {Exit, Call, Ja}
        THEN TrimSuffix(SourceString(Source(o)), "Source") ELSE "")
    \o (IF Class(o) = Jump32Class THEN "32" ELSE "")

StringJump(o) ==
    JumpOpString(JumpOp(o))
    \o (IF Class(o) = Jump32Class THEN "32" ELSE "")
    \o (IF JumpOp(o) \notin {Exit, Call, Ja}
        THEN TrimSuffix(SourceString(Source(o)), "Source") ELSE "")

String(o) ==
    CASE isLoadOrStore(Class(o)) -> StringLoadStore(o)
      [] IsALU(Class(o)) -> StringALU(o)
      [] IsJump(Class(o)) -> StringJump(o)
      [] OTHER -> "OpCode(0x" \o Hex(Val(And(o, opCodeMask))) \o ")"

----------------------------------------------------------------------------
(* Inputs *)

Sizes == {Byte, Half, Word, DWord}
Sources == {ImmSource, RegSource}
ALUOps == {Add, Sub, Mul, Div, OrOp, AndOp, LSh, RSh, Neg, Mod, Xor, Mov,
           ArSh, Swap}
JumpOps == {Ja, JEq, JGT, JGE, JSet, JNE, JSGT, JSGE, Call, Exit, JLT, JLE,
            JSLT, JSLE}
AtomicOps == {AddAtomic, FetchAdd, AndAtomic, FetchAnd, OrAtomic, FetchOr,
              XorAtomic, FetchXor, XchgAtomic, CmpXchgAtomic}

\* every value of the three mode bits, the sentinel, and values that spill
\* into the size and class bits
ModeArgs == {Bits(32 * k) : k \in 0 .. 7} \cup {InvalidMode, Bits(97), Bits(8)}
SizeArgs == Sizes \cup {InvalidSize, Bits(32), Bits(25)}
SourceArgs == Sources \cup {InvalidSource, Bits(16), Bits(9)}
\* every value of the op nibble, the sentinel, and values outside the nibble
ALUArgs == {Bits(16 * k) : k \in 0 .. 15} \cup {InvalidALUOp, Bits(8), Bits(304)}
JumpArgs == {Bits(16 * k) : k \in 0 .. 15} \cup {InvalidJumpOp, Bits(8), Bits(21)}
\* the named atomic ops, the sentinel, the top bit of the field, and values
\* outside the field (the mode byte itself, a bit above the field)
AtomicArgs == AtomicOps \cup {InvalidAtomic, Bits(65536), Bits(192), Bits(131072)}

Constructed ==
    UNION { {LoadMemOp(s), LoadMemSXOp(s), LoadImmOp(s), LoadIndOp(s),
             LoadAbsOp(s), StoreMemOp(s), StoreImmOp(s), StoreXAddOp(s)}
            : s \in Sizes }
    \cup { opALU(a, c) : a \in ALUOps, c \in {ALUClass, ALU64Class} }
    \cup { opJump(j, c) : j \in JumpOps, c \in {JumpClass, Jump32Class} }

----------------------------------------------------------------------------
(* The state machine: a chain of setter calls on a constructed OpCode.     *)
(* op is the current value, prev the receiver of the last call, setter and *)
(* arg that call, failed whether some call of the chain returned           *)
(* InvalidOpCode.                                                          *)

Init ==
    /\ op \in Constructed \ {InvalidOpCode}
    /\ prev = op
    /\ setter = "new"
    /\ arg = {}
    /\ failed = FALSE
    /\ ResolverIdle
    /\ SyncerIdle

Step(name, a, result) ==
    /\ op' = result
    /\ prev' = op
    /\ setter' = name
    /\ arg' = a
    /\ failed' = (failed \/ result = InvalidOpCode)
    /\ UNCHANGED <<resolverVars, syncerVars>>

DoSetMode == \E m \in ModeArgs : Step("SetMode", m, SetMode(op, m))
DoSetSize == \E s \in SizeArgs : Step("SetSize", s, SetSize(op, s))
DoSetAtomicOp == \E a \in AtomicArgs : Step("SetAtomicOp", a, SetAtomicOp(op, a))
DoSetSource == \E s \in SourceArgs : Step("SetSource", s, SetSource(op, s))
DoSetALUOp == \E a \in ALUArgs : Step("SetALUOp", a, SetALUOp(op, a))
DoSetJumpOp == \E j \in JumpArgs : Step("SetJumpOp", j, SetJumpOp(op, j))

Next ==
    \/ DoSetMode
    \/ DoSetSize
    \/ DoSetAtomicOp
    \/ DoSetSource
    \/ DoSetALUOp
    \/ DoSetJumpOp

Spec == Init /\ [][Next]_vars

----------------------------------------------------------------------------
(* Vocabulary of the properties *)

Called == setter # "new"

\* the mask of the facet the last call wrote
MaskOf(name) ==
    CASE name = "SetMode" -> modeMask
      [] name = "SetSize" -> sizeMask
      [] name = "SetAtomicOp" -> atomicMask
      [] name = "SetSource" -> sourceMask
      [] name = "SetALUOp" -> aluMask
      [] name = "SetJumpOp" -> jumpMask
      [] OTHER -> {}

\* whether class cls admits the facet the setter called name writes
Admits(cls, name) ==
    CASE name = "SetMode" -> isLoadOrStore(cls)
      [] name = "SetSize" -> isLoadOrStore(cls)
      [] name = "SetAtomicOp" -> isLoadOrStore(cls)
      [] name = "SetSource" -> isJumpOrALU(cls)
      [] name = "SetALUOp" -> IsALU(cls)
      [] name = "SetJumpOp" -> IsJump(cls)
      [] OTHER -> FALSE

\* A Valid OpCode: no bit above the low byte, and on Jump32Class an op the
\* class supports.
Valid(o) ==
    /\ valid(o, opCodeMask)
    /\ Class(o) = Jump32Class => And(o, jumpMask) \notin {Exit, Call}

LowByte(o) == And(o, opCodeMask)

AtomicStX(o) == Class(o) = StXClass /\ Mode(o) = AtomicMode

----------------------------------------------------------------------------
(* C1 *)

\* C1 as stated: a setter called on a Valid OpCode returns a Valid OpCode
\* or InvalidOpCode, nothing else.
C1_ValidOrInvalid ==
    (Called /\ Valid(prev)) => (Valid(op) \/ op = InvalidOpCode)

\* C1 amended: a setter called on a Valid OpCode returns InvalidOpCode, or a
\* value whose low byte is a Valid OpCode and whose bits above the low byte
\* lie in the mask of the facet written: a Valid OpCode when that mask lies
\* in the low byte, and for SetAtomicOp, whose field is bits 8..16, the
\* receiver with the atomic op above its low byte.
C1_ValidUpToFacetMask ==
    (Called /\ Valid(prev)) =>
        \/ op = InvalidOpCode
        \/ /\ Valid(LowByte(op))
           /\ valid(op, Or(opCodeMask, MaskOf(setter)))
           /\ MaskOf(setter) \subseteq opCodeMask => Valid(op)
           /\ setter = "SetAtomicOp" => op = Or(prev, arg)

C1_Witness ==
    /\ setter = "SetAtomicOp"
    /\ Valid(prev)
    /\ arg = CmpXchgAtomic
    /\ op # InvalidOpCode
    /\ ~Valid(op)
    /\ Valid(LowByte(op))

----------------------------------------------------------------------------
(* C2 *)

\* the state after Set_f(o, Get_f(o)) on an o whose class admits f
RoundTripOf(name, admitted, got) ==
    setter = name /\ admitted /\ arg = got

\* C2 as stated: writing back the value just read leaves the opcode
\* unchanged, for every facet the class admits, Source on every ALU and jump
\* opcode included.
C2_RoundTripAllFacets ==
    Valid(prev) =>
    /\ RoundTripOf("SetMode", isLoadOrStore(Class(prev)), Mode(prev)) => op = prev
    /\ RoundTripOf("SetSize", isLoadOrStore(Class(prev)), Size(prev)) => op = prev
    /\ RoundTripOf("SetAtomicOp",
                   Class(prev) = StXClass /\ Mode(prev) = AtomicMode,
                   AtomicOp(prev)) => op = prev
    /\ RoundTripOf("SetSource", isJumpOrALU(Class(prev)), Source(prev)) => op = prev
    /\ RoundTripOf("SetALUOp", IsALU(Class(prev)), ALUOp(prev)) => op = prev
    /\ RoundTripOf("SetJumpOp", IsJump(Class(prev)), JumpOp(prev)) => op = prev

\* C2 amended: the round trip holds for Mode, Size, AtomicOp, ALUOp and
\* JumpOp as stated, and for Source on the ALU and jump opcodes whose ALUOp
\* is not Swap; on a Swap opcode Source reads InvalidSource and writing it
\* back returns InvalidOpCode.  It holds of every OpCode the setters reach,
\* the StX opcodes that carry an atomic op included.
C2_RoundTrip ==
    /\ RoundTripOf("SetMode", isLoadOrStore(Class(prev)), Mode(prev)) => op = prev
    /\ RoundTripOf("SetSize", isLoadOrStore(Class(prev)), Size(prev)) => op = prev
    /\ RoundTripOf("SetAtomicOp",
                   Class(prev) = StXClass /\ Mode(prev) = AtomicMode,
                   AtomicOp(prev)) => op = prev
    /\ RoundTripOf("SetSource",
                   isJumpOrALU(Class(prev)) /\ ALUOp(prev) # Swap,
                   Source(prev)) => op = prev
    /\ RoundTripOf("SetSource",
                   isJumpOrALU(Class(prev)) /\ ALUOp(prev) = Swap,
                   Source(prev)) => (arg = InvalidSource /\ op = InvalidOpCode)
    /\ RoundTripOf("SetALUOp", IsALU(Class(prev)), ALUOp(prev)) => op = prev
    /\ RoundTripOf("SetJumpOp", IsJump(Class(prev)), JumpOp(prev)) => op = prev

C2_Witness ==
    /\ RoundTripOf("SetSource", IsALU(Class(prev)), Source(prev))
    /\ Valid(prev)
    /\ ALUOp(prev) = Mov
    /\ arg = RegSource
    /\ op = prev

----------------------------------------------------------------------------
(* C3 *)

\* C3: a setter that succeeds leaves the class, the low three bits, as it
\* was.
C3_ClassInertia ==
    (Called /\ op # InvalidOpCode) => Class(op) = Class(prev)

C3_Witness ==
    /\ setter = "SetSize"
    /\ Valid(prev)
    /\ arg = DWord
    /\ op \notin {InvalidOpCode, prev}
    /\ Class(op) = Class(prev)

----------------------------------------------------------------------------
(* C4 *)

\* C4: on an OpCode whose class does not admit the facet, the setter
\* returns InvalidOpCode whatever the value, and the getter reads the
\* facet's Invalid sentinel.
C4_ClassMismatch ==
    /\ (Called /\ ~Admits(Class(prev), setter)) => op = InvalidOpCode
    /\ ~isLoadOrStore(Class(op)) =>
           /\ Mode(op) = InvalidMode
           /\ Size(op) = InvalidSize
           /\ AtomicOp(op) = InvalidAtomic
    /\ isLoadOrStore(Class(op)) => Source(op) = InvalidSource
    /\ ~IsALU(Class(op)) => ALUOp(op) = InvalidALUOp
    /\ ~IsJump(Class(op)) => JumpOp(op) = InvalidJumpOp

C4_Witness ==
    /\ setter = "SetSource"
    /\ Valid(prev)
    /\ isLoadOrStore(Class(prev))
    /\ Source(prev) = InvalidSource
    /\ arg = RegSource
    /\ op = InvalidOpCode

----------------------------------------------------------------------------
(* C5 *)

\* C5: a setter given a value with a bit outside the facet's mask returns
\* InvalidOpCode, on an opcode of an admitting class too; every facet's
\* Invalid sentinel is such a value; valid(value, mask) is true iff every
\* set bit of value is set in mask.
C5_MaskOverflow ==
    /\ (Called /\ ~(arg \subseteq MaskOf(setter))) => op = InvalidOpCode
    /\ Called => (valid(arg, MaskOf(setter)) <=> arg \subseteq MaskOf(setter))
    /\ Called => (valid(prev, opCodeMask) <=> prev \subseteq opCodeMask)
    /\ ~valid(InvalidMode, modeMask)
    /\ ~valid(InvalidSize, sizeMask)
    /\ ~valid(InvalidAtomic, atomicMask)
    /\ ~valid(InvalidSource, sourceMask)
    /\ ~valid(InvalidALUOp, aluMask)
    /\ ~valid(InvalidJumpOp, jumpMask)

C5_Witness ==
    /\ setter = "SetMode"
    /\ Valid(prev)
    /\ isLoadOrStore(Class(prev))
    /\ arg = Bits(97)
    /\ op = InvalidOpCode

----------------------------------------------------------------------------
(* C6 *)

\* the chain so far is a constructor followed by successful setters
Built == ~failed

\* C6 as stated: bpfOpCode returns the low byte without error for every
\* value built by a constructor and successful setters, an error for
\* InvalidOpCode and for a value with a bit outside 0xff, and never a byte
\* together with an error.
C6_RawOfEveryBuiltOpCode ==
    /\ Built => (~bpfOpCode(op).err /\ bpfOpCode(op).byte = LowByte(op))
    /\ (op = InvalidOpCode \/ ~(op \subseteq Bits(255))) => bpfOpCode(op).err
    /\ bpfOpCode(op).err => bpfOpCode(op).byte = Bits(0)

\* C6 amended: bpfOpCode returns the low byte without error exactly for the
\* values with no bit outside 0xff; a built StX opcode in AtomicMode with a
\* non-zero atomic op in bits 8..16 gets an error, as do InvalidOpCode and
\* every other value with a bit outside 0xff; an error never comes with a
\* byte.
C6_RawProjection ==
    /\ (Built /\ AtomicStX(op) /\ AtomicOp(op) # AddAtomic) => bpfOpCode(op).err
    /\ (op = InvalidOpCode \/ ~(op \subseteq Bits(255))) => bpfOpCode(op).err
    /\ op \subseteq Bits(255) =>
           (~bpfOpCode(op).err /\ bpfOpCode(op).byte = LowByte(op))
    /\ bpfOpCode(op).err => bpfOpCode(op).byte = Bits(0)

C6_Witness ==
    /\ Built
    /\ setter = "SetAtomicOp"
    /\ arg = CmpXchgAtomic
    /\ AtomicOp(op) = CmpXchgAtomic
    /\ bpfOpCode(op).err

----------------------------------------------------------------------------
(* C7 *)

\* C7: rawInstructions is 2 exactly on LoadImmOp(DWord), the value 0x18
\* (class Ld, Mode Immediate, Size DWord), and 1 on every other value, the
\* other DWord loads and stores and InvalidOpCode included.
C7_DWordLoadUnique ==
    /\ rawInstructions(op) \in {1, 2}
    /\ rawInstructions(op) = 2 <=> op = Bits(24)
    /\ rawInstructions(op) = 2 <=>
           (Class(op) = LdClass /\ Mode(op) = ImmMode /\ Size(op) = DWord)
    /\ op = InvalidOpCode => rawInstructions(op) = 1
    /\ LoadImmOp(DWord) = Bits(24)
    /\ bpfOpCode(LoadImmOp(DWord)) = [byte |-> Bits(24), err |-> FALSE]

C7_Witness ==
    /\ setter = "SetSize"
    /\ prev = LoadImmOp(Word)
    /\ arg = DWord
    /\ op = LoadImmOp(DWord)
    /\ rawInstructions(op) = 2
    /\ rawInstructions(prev) = 1

----------------------------------------------------------------------------
(* C8 *)

\* C8: on Jump32Class SetJumpOp with Exit or Call returns InvalidOpCode and
\* JumpOp of a value whose op bits are Exit or Call reads InvalidJumpOp; on
\* JumpClass the same calls succeed and read back.
C8_ExitCallOnJump32 ==
    /\ (setter = "SetJumpOp" /\ Class(prev) = Jump32Class /\ arg \in {Exit, Call})
           => op = InvalidOpCode
    /\ (setter = "SetJumpOp" /\ Class(prev) = JumpClass /\ arg \in {Exit, Call})
           => (op = Or(And(prev, Not(jumpMask)), arg) /\ JumpOp(op) = arg)
    /\ \A j \in {Exit, Call} : \A s \in Sources :
           /\ JumpOp(Or(Or(Jump32Class, j), s)) = InvalidJumpOp
           /\ JumpOp(Or(Or(JumpClass, j), s)) = j

C8_Witness ==
    /\ setter = "SetJumpOp"
    /\ Class(prev) = Jump32Class
    /\ JumpOp(prev) = JEq
    /\ arg = Exit
    /\ op = InvalidOpCode

----------------------------------------------------------------------------
(* C9 *)

----------------------------------------------------------------------------
(* C10 *)

\* C10: AtomicOp reads a non-sentinel value exactly on a StXClass opcode in
\* AtomicMode; SetAtomicOp returns InvalidOpCode unless both hold, so it
\* fails before SetMode(AtomicMode) and succeeds after it, and AtomicOp
\* then reads back the value set.
C10_AtomicGating ==
    /\ AtomicOp(op) # InvalidAtomic <=> AtomicStX(op)
    /\ AtomicStX(op) => AtomicOp(op) = And(op, atomicMask)
    /\ (setter = "SetAtomicOp" /\ ~AtomicStX(prev)) => op = InvalidOpCode
    /\ (setter = "SetAtomicOp" /\ AtomicStX(prev) /\ valid(arg, atomicMask))
           => (op # InvalidOpCode /\ AtomicOp(op) = arg)
    /\ (setter = "SetMode" /\ Class(prev) = StXClass /\ arg = AtomicMode)
           => \A a \in AtomicOps : AtomicOp(SetAtomicOp(op, a)) = a

C10_Witness ==
    /\ setter = "SetAtomicOp"
    /\ AtomicStX(prev)
    /\ And(prev, atomicMask) = {}
    /\ arg = CmpXchgAtomic
    /\ op # InvalidOpCode
    /\ AtomicOp(op) = CmpXchgAtomic

----------------------------------------------------------------------------
(* C11 *)

\* C11: Source reads InvalidSource on a Swap opcode and outside the ALU and
\* jump classes, Endianness reads InvalidEndian unless the ALUOp is Swap;
\* so at most one of the two is not its sentinel, and exactly one on an
\* opcode of an ALU or jump class.
C11_SourceXorEndianness ==
    /\ (ALUOp(op) = Swap \/ ~isJumpOrALU(Class(op))) => Source(op) = InvalidSource
    /\ ALUOp(op) # Swap => Endianness(op) = InvalidEndian
    /\ ALUOp(op) = Swap => Endianness(op) = And(op, endianMask)
    /\ ~(Source(op) # InvalidSource /\ Endianness(op) # InvalidEndian)
    /\ isJumpOrALU(Class(op)) =>
           (Source(op) # InvalidSource \/ Endianness(op) # InvalidEndian)
    /\ ~isJumpOrALU(Class(op)) =>
           (Source(op) = InvalidSource /\ Endianness(op) = InvalidEndian)

C11_Witness ==
    /\ setter = "SetALUOp"
    /\ arg = Swap
    /\ Class(prev) = ALUClass
    /\ Source(prev) = RegSource
    /\ Source(op) = InvalidSource
    /\ Endianness(op) = BE

----------------------------------------------------------------------------
(* C12 *)

\* C12 as stated: Mode MemorySignExtended with Size DWord is rejected:
\* SetMode(MemSXMode) on a DWord load and SetSize(DWord) on a MemSXMode
\* load return InvalidOpCode, and no built opcode has the combination.
C12_MemSXDWordRejected ==
    /\ (setter = "SetMode" /\ IsLoad(Class(prev)) /\ Size(prev) = DWord
            /\ arg = MemSXMode) => op = InvalidOpCode
    /\ (setter = "SetSize" /\ IsLoad(Class(prev)) /\ Mode(prev) = MemSXMode
            /\ arg = DWord) => op = InvalidOpCode
    /\ Called => ~(op # InvalidOpCode /\ IsLoad(Class(op))
                      /\ Mode(op) = MemSXMode /\ Size(op) = DWord)

----------------------------------------------------------------------------
(* C13 *)

\* C13 as stated: once a setter of the chain has returned InvalidOpCode,
\* every later setter returns InvalidOpCode.
C13_FailureSticks == failed => op = InvalidOpCode

----------------------------------------------------------------------------
(* C14 *)

NamedModes == {ImmMode, AbsMode, IndMode, MemMode, MemSXMode, AtomicMode}

\* C14 as stated: the mnemonic of a reachable OpCode never contains
\* "Class", "Mode", "Source" or "Atomic".
C14_NoFacetSuffix ==
    \A t \in {"Class", "Mode", "Source", "Atomic"} : ~Contains(String(op), t)

\* C14, amended: the mnemonic of a reachable OpCode never contains "Class"
\* or "Source"; it contains "Atomic" exactly when the opcode is a load or
\* store in AtomicMode, and "Mode" exactly when it is a load or store whose
\* mode bits hold a value that has no name.
C14_FacetSuffixes ==
    /\ ~Contains(String(op), "Class")
    /\ ~Contains(String(op), "Source")
    /\ Contains(String(op), "Atomic")
           <=> (isLoadOrStore(Class(op)) /\ Mode(op) = AtomicMode)
    /\ Contains(String(op), "Mode")
           <=> (isLoadOrStore(Class(op)) /\ Mode(op) \notin NamedModes)

C14_Witness ==
    /\ setter = "SetAtomicOp"
    /\ arg = CmpXchgAtomic
    /\ Size(prev) = DWord
    /\ String(op) = "StXAtomicCmpXchgDW"

----------------------------------------------------------------------------
(* C15 *)

\* C15 as stated: opJump(JEq, Jump32Class).SetSource(RegSource) renders
\* "JEqX32", the source marker before the width.
C15_JEqX32 ==
    (setter = "SetSource" /\ prev = opJump(JEq, Jump32Class) /\ arg = RegSource)
        => String(op) = "JEqX32"

\* C15, amended: opJump(JEq, Jump32Class).SetSource(RegSource) renders
\* "JEq32Reg"; on every Jump32Class opcode whose JumpOp is not Exit, Call
\* or Ja the width "32" directly follows the JumpOp name and the source
\* name, stripped of "Source", comes last.
C15_SourceAfterWidth ==
    /\ (setter = "SetSource" /\ prev = opJump(JEq, Jump32Class) /\ arg = RegSource)
           => String(op) = "JEq32Reg"
    /\ (Class(op) = Jump32Class /\ JumpOp(op) \notin {Exit, Call, Ja}) =>
           String(op) = JumpOpString(JumpOp(op)) \o "32"
                            \o TrimSuffix(SourceString(Source(op)), "Source")

C15_Witness ==
    /\ setter = "SetSource"
    /\ prev = opJump(JEq, Jump32Class)
    /\ arg = RegSource
    /\ String(op) = "JEq32Reg"

----------------------------------------------------------------------------
(* C16 *)

\* C16 as stated: opALU(Add, ALUClass).SetSource(ImmSource) renders exactly
\* "Add32" and opALU(Add, ALU64Class) exactly "Add".
C16_Add32 ==
    /\ (setter = "SetSource" /\ prev = opALU(Add, ALUClass) /\ arg = ImmSource)
           => String(op) = "Add32"
    /\ op = opALU(Add, ALU64Class) => String(op) = "Add"

\* C16, amended: opALU(Add, ALUClass).SetSource(ImmSource) renders
\* "AddImm32" and opALU(Add, ALU64Class) renders "AddImm"; the mnemonic of
\* an ALU opcode whose ALUOp is not Swap is the ALUOp name, the source name
\* stripped of "Source", and then "32" exactly when the class is ALUClass.
C16_ALUWidthSuffix ==
    /\ (setter = "SetSource" /\ prev = opALU(Add, ALUClass) /\ arg = ImmSource)
           => String(op) = "AddImm32"
    /\ op = opALU(Add, ALU64Class) => String(op) = "AddImm"
    /\ (IsALU(Class(op)) /\ ALUOp(op) # Swap) =>
           /\ HasSuffix(String(op), "32") <=> Class(op) = ALUClass
           /\ String(op) = ALUOpString(ALUOp(op))
                  \o TrimSuffix(SourceString(Source(op)), "Source")
                  \o (IF Class(op) = ALUClass THEN "32" ELSE "")

C16_Witness ==
    /\ setter = "SetSource"
    /\ prev = opALU(Add, ALUClass)
    /\ arg = ImmSource
    /\ String(op) = "AddImm32"

----------------------------------------------------------------------------
(* C19 *)

----------------------------------------------------------------------------
(* C20 *)

\* the facet the last setter wrote, read back from o
GetOf(name, o) ==
    CASE name = "SetMode" -> Mode(o)
      [] name = "SetSize" -> Size(o)
      [] name = "SetAtomicOp" -> AtomicOp(o)
      [] name = "SetSource" -> Source(o)
      [] name = "SetALUOp" -> ALUOp(o)
      [] name = "SetJumpOp" -> JumpOp(o)

\* C20 as stated: after a setter that succeeded, the getter of the same
\* facet returns the value that was set, SetSource on an ALU opcode of any
\* ALUOp included.
C20_SetThenGetAllFacets ==
    (Called /\ op # InvalidOpCode) => GetOf(setter, op) = arg

\* C20, amended: after a setter that succeeded, the getter of the same
\* facet returns the value that was set, except that after SetSource on a
\* Swap opcode Source reads InvalidSource and Endianness reads the bit.
C20_SetThenGet ==
    (Called /\ op # InvalidOpCode) =>
        IF setter = "SetSource" /\ ALUOp(op) = Swap
        THEN Source(op) = InvalidSource /\ Endianness(op) = arg
        ELSE GetOf(setter, op) = arg

C20_Witness ==
    /\ setter = "SetSource"
    /\ ALUOp(prev) = Swap
    /\ arg = RegSource
    /\ op # InvalidOpCode
    /\ Source(op) = InvalidSource
    /\ Endianness(op) = BE

----------------------------------------------------------------------------
(* ResolveConfigurations (package resolver).  The sources are read in list *)
(* order; what a read returns is the environment's choice.  Source i       *)
(* supplies the value "v<i>" for every key it supplies, so that a value of *)
(* the result names the source it came from.                               *)

MaxSources == 3

ConfigSources == "config-sources"
ConfigSourcesOverrides == "config-sources-overrides"

Keys == {"k1", "k2", ConfigSources}

AllowLists == {<<>>, <<"k1">>, <<"k2">>, <<"k1", "k2">>, <<"k1", ConfigSources>>}
DenyLists == {<<>>, <<"k1">>, <<"k2">>, <<"k1", "k2">>}

Range(list) == {list[i] : i \in 1 .. Len(list)}

SourceValue(i) == "v" \o ToString(i)

\* the maps a read of source i can return
ConfigMapsOf(i) == {[k \in D |-> SourceValue(i)] : D \in SUBSET Keys}

\* the description a read of source i returns beside the map
DescOf(i) == "s" \o ToString(i)

\* matchKeys is nil when neither list has an element
matchKeys ==
    IF Len(allowConfigKeys) > 0
    THEN [nil |-> FALSE, keys |-> Range(allowConfigKeys)]
    ELSE IF Len(denyConfigKeys) > 0
         THEN [nil |-> FALSE, keys |-> Range(denyConfigKeys)]
         ELSE [nil |-> TRUE, keys |-> {}]

allowIfMatch == Len(allowConfigKeys) > 0

\* the test under which a key of a later source is deleted
nonOverridable(k) ==
    ~matchKeys.nil /\ ~((k \in matchKeys.keys) = allowIfMatch)

\* the map of a source after the deletions of the loop body
keepOverridable(c, isFirst) ==
    IF isFirst THEN c
    ELSE [k \in {x \in DOMAIN c : ~nonOverridable(x)} |-> c[k]]

\* mergeConfig with the lower map winning
mergeConfigLowerWins(lower, upper) ==
    [k \in DOMAIN lower \cup DOMAIN upper |->
        IF k \in DOMAIN lower THEN lower[k] ELSE upper[k]]

mergeConfig(lower, upper) ==
    [k \in DOMAIN lower \cup DOMAIN upper |->
        IF k \in DOMAIN upper THEN upper[k] ELSE lower[k]]

RECURSIVE Join(_)
Join(list) ==
    IF Len(list) = 0 THEN ""
    ELSE IF Len(list) = 1 THEN list[1]
         ELSE list[1] \o "," \o Join(Tail(list))

\* json.Marshal of a slice; a slice without elements is nil here
MarshalList(list) ==
    IF Len(list) = 0 THEN "null" ELSE "[" \o Join(list) \o "]"

MarshalConfigOverride(allow, deny) ==
    "{allowConfigKeys:" \o MarshalList(allow)
        \o ",denyConfigKeys:" \o MarshalList(deny) \o "}"

ResolverInit ==
    /\ sources \in {[i \in 1 .. n |-> i] : n \in 0 .. MaxSources}
    /\ allowConfigKeys \in AllowLists
    /\ denyConfigKeys \in DenyLists
    /\ idx = 0
    /\ first = TRUE
    /\ config = EmptyMap
    /\ sourceDescriptions = <<>>
    /\ read = <<>>
    /\ rpc = "loop"
    /\ NodeConfigIdle
    /\ OpCodeIdle
    /\ SyncerIdle

\* one iteration of the loop, ReadConfigSource returning a map
ReadSource ==
    /\ rpc = "loop"
    /\ idx < Len(sources)
    /\ \E c \in ConfigMapsOf(sources[idx + 1]) :
         LET kept == keepOverridable(c, first) IN
           /\ read' = Append(read, c)
           /\ config' = IF DOMAIN kept # {}
                        THEN mergeConfig(config, kept) ELSE config
           /\ sourceDescriptions' =
                  IF DOMAIN kept # {}
                  THEN Append(sourceDescriptions, DescOf(sources[idx + 1]))
                  ELSE sourceDescriptions
    /\ first' = FALSE
    /\ idx' = idx + 1
    /\ UNCHANGED <<sources, allowConfigKeys, denyConfigKeys, rpc>>
    /\ UNCHANGED <<opVars, syncerVars, nodeConfigVars>>

\* one iteration of the loop, ReadConfigSource returning an error
ReadSourceFails ==
    /\ rpc = "loop"
    /\ idx < Len(sources)
    /\ rpc' = "error"
    /\ config' = EmptyMap
    /\ UNCHANGED <<sources, allowConfigKeys, denyConfigKeys, idx, first,
                   sourceDescriptions, read>>
    /\ UNCHANGED <<opVars, syncerVars, nodeConfigVars>>

\* after the loop: the two keys the function writes itself, and the return
ReturnConfig ==
    /\ rpc = "loop"
    /\ idx = Len(sources)
    /\ config' = [k \in DOMAIN config \cup {ConfigSources, ConfigSourcesOverrides} |->
                     IF k = ConfigSources THEN MarshalList(sourceDescriptions)
                     ELSE IF k = ConfigSourcesOverrides
                          THEN MarshalConfigOverride(allowConfigKeys, denyConfigKeys)
                          ELSE config[k]]
    /\ rpc' = "done"
    /\ UNCHANGED <<sources, allowConfigKeys, denyConfigKeys, idx, first,
                   sourceDescriptions, read>>
    /\ UNCHANGED <<opVars, syncerVars, nodeConfigVars>>

ResolverNext ==
    \/ ReadSource
    \/ ReadSourceFails
    \/ ReturnConfig

ResolverSpec == ResolverInit /\ [][ResolverNext]_vars

----------------------------------------------------------------------------
(* C17 *)

\* whether the source at list position i is allowed to set key k
Permitted(i, k) ==
    \/ i = 1
    \/ (Len(allowConfigKeys) > 0 /\ k \in Range(allowConfigKeys))
    \/ (Len(allowConfigKeys) = 0 /\ k \notin Range(denyConfigKeys))

\* the list positions whose read supplied k and that may set it
Suppliers(k) ==
    {i \in 1 .. Len(read) : k \in DOMAIN read[i] /\ Permitted(i, k)}

Last(S) == CHOOSE i \in S : \A j \in S : j <= i

\* C17 as stated: for every key, the returned value is that of the last
\* source in list order that supplies the key and is permitted to set it.
C17_LastPermittedSourceEveryKey ==
    rpc = "done" =>
        \A k \in Keys :
            Suppliers(k) # {} =>
                (k \in DOMAIN config /\ config[k] = read[Last(Suppliers(k))][k])

\* C17, amended: for every key other than config-sources and
\* config-sources-overrides the returned map holds the value of the last
\* source in list order that supplies the key and is permitted to set it,
\* and does not hold the key when there is no such source; the first listed
\* source is always permitted, a later one iff the allow list is non-empty
\* and holds the key, or the allow list is empty and the deny list does not
\* hold the key.  The two keys named are always those written by the
\* function itself.
C17_LastPermittedSource ==
    rpc = "done" =>
        /\ \A k \in Keys \ {ConfigSources, ConfigSourcesOverrides} :
               IF Suppliers(k) # {}
               THEN k \in DOMAIN config
                    /\ config[k] = read[Last(Suppliers(k))][k]
               ELSE k \notin DOMAIN config
        /\ config[ConfigSources] = MarshalList(sourceDescriptions)
        /\ config[ConfigSourcesOverrides] =
               MarshalConfigOverride(allowConfigKeys, denyConfigKeys)
        /\ DOMAIN config \subseteq Keys \cup {ConfigSourcesOverrides}

\* the first source yields no keys and the later ones are still held to
\* the deny list; the third overrides the second on the key both may set
C17_Witness ==
    /\ rpc = "done"
    /\ Len(read) = 3
    /\ allowConfigKeys = <<>>
    /\ denyConfigKeys = <<"k1">>
    /\ DOMAIN read[1] = {}
    /\ DOMAIN read[2] = {"k1", "k2"}
    /\ DOMAIN read[3] = {"k1", "k2"}
    /\ "k1" \notin DOMAIN config
    /\ config["k2"] = SourceValue(3)

----------------------------------------------------------------------------
(* envoyServiceBackendSyncer: the registry l7lbSvcs of the services whose  *)
(* backends are synced to Envoy.  Both calls hold l7lbSvcsMutex from entry *)
(* to return, so each is one step.                                         *)

Services == {"svc1", "svc2"}
Resources == {"cec1", "cec2"}
PortLists == {<<>>, <<"80">>, <<"80", "443">>}

MapPut(m, k, v) == [x \in DOMAIN m \cup {k} |-> IF x = k THEN v ELSE m[x]]
MapDelete(m, k) == [x \in DOMAIN m \ {k} |-> m[x]]

\* the registry after RegisterServiceUsageInCEC
registerServiceUsageInCEC(svcs, svcName, resourceName, frontendPorts) ==
    LET l7lbInfo == IF svcName \in DOMAIN svcs THEN svcs[svcName]
                    ELSE [backendRefs |-> EmptyMap]
    IN MapPut(svcs, svcName,
              [backendRefs |-> MapPut(l7lbInfo.backendRefs, resourceName,
                                      [frontendPorts |-> frontendPorts])])

\* DeregisterServiceUsageInCEC keeping a service without references
deregisterKeepsService(svcs, svcName, resourceName) ==
    IF svcName \notin DOMAIN svcs
    THEN [svcs |-> svcs, ret |-> FALSE]
    ELSE LET refs == MapDelete(svcs[svcName].backendRefs, resourceName)
         IN [svcs |-> MapPut(svcs, svcName, [backendRefs |-> refs]),
             ret |-> DOMAIN refs = {}]

\* the registry after DeregisterServiceUsageInCEC, and what it returns
deregisterServiceUsageInCEC(svcs, svcName, resourceName) ==
    IF svcName \notin DOMAIN svcs
    THEN [svcs |-> svcs, ret |-> FALSE]
    ELSE LET refs == MapDelete(svcs[svcName].backendRefs, resourceName)
         IN IF DOMAIN refs = {}
            THEN [svcs |-> MapDelete(svcs, svcName), ret |-> TRUE]
            ELSE [svcs |-> MapPut(svcs, svcName, [backendRefs |-> refs]),
                  ret |-> FALSE]

SyncerInit ==
    /\ SyncerIdle
    /\ OpCodeIdle
    /\ ResolverIdle

RegisterServiceUsageInCEC ==
    \E svcName \in Services, resourceName \in Resources, frontendPorts \in PortLists :
        /\ l7lbSvcs' = registerServiceUsageInCEC(l7lbSvcs, svcName, resourceName,
                                                 frontendPorts)
        /\ live' = live \cup {<<svcName, resourceName>>}
        /\ call' = [name |-> "Register", svcName |-> svcName,
                    resourceName |-> resourceName, ret |-> FALSE]
        /\ before' = l7lbSvcs
        /\ UNCHANGED <<opVars, resolverVars, syncVars>>

DeregisterServiceUsageInCEC ==
    \E svcName \in Services, resourceName \in Resources :
        LET out == deregisterServiceUsageInCEC(l7lbSvcs, svcName, resourceName) IN
        /\ l7lbSvcs' = out.svcs
        /\ live' = live \ {<<svcName, resourceName>>}
        /\ call' = [name |-> "Deregister", svcName |-> svcName,
                    resourceName |-> resourceName, ret |-> out.ret]
        /\ before' = l7lbSvcs
        /\ UNCHANGED <<opVars, resolverVars, syncVars>>

SyncerNext ==
    \/ RegisterServiceUsageInCEC
    \/ DeregisterServiceUsageInCEC

SyncerSpec == SyncerInit /\ [][SyncerNext]_vars

----------------------------------------------------------------------------
(* C18 *)

\* the resources registered for svc and not deregistered since
LiveRefs(svc) == {res \in Resources : <<svc, res>> \in live}

\* C18: a service is in l7lbSvcs iff a resource registered for it has not
\* been deregistered since; DeregisterServiceUsageInCEC returns true
\* exactly when the call removed the service entry (it existed and no
\* reference remains), and false, with the registry unchanged, for a
\* service that was not in the registry.
C18_RegistryInvariant ==
    /\ \A svc \in Services :
           /\ svc \in DOMAIN l7lbSvcs <=> LiveRefs(svc) # {}
           /\ svc \in DOMAIN l7lbSvcs =>
                  DOMAIN l7lbSvcs[svc].backendRefs = LiveRefs(svc)
    /\ DOMAIN l7lbSvcs \subseteq Services
    /\ call.name = "Deregister" =>
           /\ call.ret <=> (call.svcName \in DOMAIN before
                                /\ call.svcName \notin DOMAIN l7lbSvcs)
           /\ call.ret <=>
                  (call.svcName \in DOMAIN before
                       /\ DOMAIN before[call.svcName].backendRefs
                              \subseteq {call.resourceName})
           /\ call.svcName \notin DOMAIN before =>
                  (~call.ret /\ l7lbSvcs = before)
           /\ \A svc \in Services \ {call.svcName} :
                  (svc \in DOMAIN l7lbSvcs <=> svc \in DOMAIN before)

C18_Witness ==
    /\ call.name = "Deregister"
    /\ call.ret
    /\ call.svcName = "svc1"
    /\ DOMAIN before = {"svc1", "svc2"}
    /\ DOMAIN l7lbSvcs = {"svc2"}

----------------------------------------------------------------------------
(* C21 *)

\* C21: a successful setter changes only bits of the mask of its facet;
\* so SetMode, SetSize and SetAtomicOp leave the bits of the other two
\* load/store facets alone, SetSource leaves the op bits alone, and
\* SetALUOp and SetJumpOp leave the source bit alone.
C21_SetterFrame ==
    (Called /\ op # InvalidOpCode) =>
        /\ And(op, Not(MaskOf(setter))) = And(prev, Not(MaskOf(setter)))
        /\ setter = "SetMode" =>
               (And(op, sizeMask) = And(prev, sizeMask)
                    /\ And(op, atomicMask) = And(prev, atomicMask))
        /\ setter = "SetSize" =>
               (And(op, modeMask) = And(prev, modeMask)
                    /\ And(op, atomicMask) = And(prev, atomicMask))
        /\ setter = "SetAtomicOp" =>
               (And(op, modeMask) = And(prev, modeMask)
                    /\ And(op, sizeMask) = And(prev, sizeMask))
        /\ setter = "SetSource" =>
               (And(op, aluMask) = And(prev, aluMask)
                    /\ And(op, jumpMask) = And(prev, jumpMask))
        /\ setter \in {"SetALUOp", "SetJumpOp"} =>
               And(op, sourceMask) = And(prev, sourceMask)

C21_Witness ==
    /\ setter = "SetAtomicOp"
    /\ arg = FetchXor
    /\ AtomicOp(prev) = CmpXchgAtomic
    /\ Size(prev) = Half
    /\ op # InvalidOpCode
    /\ op # prev
    /\ Size(op) = Half
    /\ Mode(op) = AtomicMode

----------------------------------------------------------------------------
(* C22 *)

SetterNames == {"SetMode", "SetSize", "SetAtomicOp", "SetSource", "SetALUOp",
                "SetJumpOp"}

\* the call of the setter called name
Apply(name, o, v) ==
    CASE name = "SetMode" -> SetMode(o, v)
      [] name = "SetSize" -> SetSize(o, v)
      [] name = "SetAtomicOp" -> SetAtomicOp(o, v)
      [] name = "SetSource" -> SetSource(o, v)
      [] name = "SetALUOp" -> SetALUOp(o, v)
      [] name = "SetJumpOp" -> SetJumpOp(o, v)

ArgsOf(name) ==
    CASE name = "SetMode" -> ModeArgs
      [] name = "SetSize" -> SizeArgs
      [] name = "SetAtomicOp" -> AtomicArgs
      [] name = "SetSource" -> SourceArgs
      [] name = "SetALUOp" -> ALUArgs
      [] name = "SetJumpOp" -> JumpArgs

\* C22: on a Valid OpCode, (a) the last write of a facet wins: when
\* Set_f(o, v1) and Set_f(o, v2) both succeed, Set_f(Set_f(o, v1), v2) is
\* Set_f(o, v2), and in particular a setter is idempotent; (b) setters of
\* different facets commute when both orders succeed.  The call of the
\* chain, Set_f(prev, arg), is the first write; the second ranges over
\* every setter and argument.
C22_SetterAlgebra ==
    (Called /\ Valid(prev) /\ op # InvalidOpCode) =>
        /\ \A v2 \in ArgsOf(setter) :
               Apply(setter, prev, v2) # InvalidOpCode =>
                   Apply(setter, op, v2) = Apply(setter, prev, v2)
        /\ Apply(setter, op, arg) = op
        /\ \A g \in SetterNames \ {setter} : \A v \in ArgsOf(g) :
               (/\ Apply(g, op, v) # InvalidOpCode
                /\ Apply(g, prev, v) # InvalidOpCode
                /\ Apply(setter, Apply(g, prev, v), arg) # InvalidOpCode)
               => Apply(g, op, v) = Apply(setter, Apply(g, prev, v), arg)

\* SetJumpOp(JNE) then SetSource(RegSource) on a jump, where
\* SetSource(RegSource) then SetJumpOp(JNE) gives the same value
C22_Witness ==
    /\ setter = "SetJumpOp"
    /\ arg = JNE
    /\ Valid(prev)
    /\ JumpOp(prev) = JEq
    /\ Source(prev) = ImmSource
    /\ op # InvalidOpCode
    /\ SetSource(op, RegSource) = SetJumpOp(SetSource(prev, RegSource), JNE)
    /\ SetSource(op, RegSource) \notin {op, prev, InvalidOpCode}
    /\ SetJumpOp(op, JGT) = SetJumpOp(prev, JGT)

----------------------------------------------------------------------------
(* C23 *)

\* the same class and the same value of every facet getter
SameFacets(a, b) ==
    /\ Class(a) = Class(b)
    /\ Mode(a) = Mode(b)
    /\ Size(a) = Size(b)
    /\ AtomicOp(a) = AtomicOp(b)
    /\ Source(a) = Source(b)
    /\ Endianness(a) = Endianness(b)
    /\ ALUOp(a) = ALUOp(b)
    /\ JumpOp(a) = JumpOp(b)

\* C23 as stated: two OpCodes built by constructors and successful setters
\* that have the same class and the same value of every facet getter are
\* the same value; an opcode that was switched to AtomicMode, given an
\* atomic op and switched back equals the one that never was atomic.
C23_CanonicalRepresentation ==
    (Built /\ op # InvalidOpCode) =>
        \A c \in Constructed \ {InvalidOpCode} : SameFacets(op, c) => op = c

----------------------------------------------------------------------------
(* C24 *)

\* C24: the mnemonic of a load/store opcode is the class name without
\* "Class", the mode name without "Mode", the atomic op name without
\* "Atomic" iff AtomicOp() is not InvalidAtomic, and the size suffix, in
\* this order; LoadImmOp(DWord) renders "LdImmDW", LoadMemOp(Word) with
\* SetMode(MemMode) renders "LdXMemW" and encodes as 0x61, and
\* StoreMemOp(DWord) made atomic with CmpXchg begins with "StXAtomic" and
\* ends with "DW".
C24_LoadStoreMnemonic ==
    /\ isLoadOrStore(Class(op)) =>
           String(op) =
               TrimSuffix(ClassString(Class(op)), "Class")
               \o TrimSuffix(ModeString(Mode(op)), "Mode")
               \o (IF AtomicOp(op) # InvalidAtomic
                   THEN TrimSuffix(AtomicOpString(AtomicOp(op)), "Atomic")
                   ELSE "")
               \o (CASE Size(op) = Byte -> "B"
                     [] Size(op) = Half -> "H"
                     [] Size(op) = Word -> "W"
                     [] Size(op) = DWord -> "DW")
    /\ op = LoadImmOp(DWord) => String(op) = "LdImmDW"
    /\ (setter = "SetMode" /\ prev = LoadMemOp(Word) /\ arg = MemMode) =>
           (String(op) = "LdXMemW" /\ bpfOpCode(op) = [byte |-> Bits(97), err |-> FALSE])
    /\ (setter = "SetAtomicOp" /\ prev = SetMode(StoreMemOp(DWord), AtomicMode)
            /\ arg = CmpXchgAtomic) =>
           (/\ SubSeq(String(op), 1, 9) = "StXAtomic"
            /\ HasSuffix(String(op), "DW")
            /\ AtomicOp(op) = CmpXchgAtomic)

C24_Witness ==
    /\ setter = "SetAtomicOp"
    /\ prev = SetMode(StoreMemOp(DWord), AtomicMode)
    /\ arg = FetchOr
    /\ String(op) = "StXAtomicFetchOrDW"

----------------------------------------------------------------------------
(* C25 *)

\* C25: the mnemonic of a jump opcode is the JumpOp name, then "32" iff the
\* class is Jump32Class, then the source name without "Source" iff the
\* JumpOp is none of Exit, Call and Ja, whatever the source bit is.
C25_JumpMnemonic ==
    IsJump(Class(op)) =>
        /\ String(op) =
               JumpOpString(JumpOp(op))
               \o (IF Class(op) = Jump32Class THEN "32" ELSE "")
               \o (IF JumpOp(op) \in {Exit, Call, Ja} THEN ""
                   ELSE TrimSuffix(SourceString(Source(op)), "Source"))
        /\ JumpOp(op) \in {Exit, Call, Ja} =>
               String(op) \in {"Exit", "Call", "Ja", "Ja32"}

C25_Witness ==
    /\ setter = "SetSource"
    /\ arg = RegSource
    /\ JumpOp(prev) = Exit
    /\ Source(op) = RegSource
    /\ String(op) = "Exit"

----------------------------------------------------------------------------
(* C26 *)

\* C26 as stated: the mnemonic of an ALU opcode whose ALUOp is Swap is "B"
\* iff the class is ALU64Class, the op name, and the endianness name.
C26_SwapAppendsEndianness ==
    (IsALU(Class(op)) /\ ALUOp(op) = Swap) =>
        String(op) = (IF Class(op) = ALU64Class THEN "B" ELSE "")
                         \o ALUOpString(Swap)
                         \o EndiannessString(Endianness(op))

\* C26, amended: the mnemonic of an ALU opcode starts with "B" iff the op
\* is Swap on ALU64Class, then has the op name; for Swap it ends with the
\* endianness name on ALUClass and with nothing more on ALU64Class, and
\* has neither a source suffix nor "32"; otherwise it ends with the source
\* name without "Source" and then "32" iff the class is ALUClass.
C26_ALUMnemonic ==
    IsALU(Class(op)) =>
        String(op) =
            (IF ALUOp(op) = Swap /\ Class(op) = ALU64Class THEN "B" ELSE "")
            \o ALUOpString(ALUOp(op))
            \o (CASE ALUOp(op) = Swap /\ Class(op) = ALUClass ->
                         EndiannessString(Endianness(op))
                  [] ALUOp(op) = Swap /\ Class(op) = ALU64Class -> ""
                  [] OTHER ->
                         TrimSuffix(SourceString(Source(op)), "Source")
                         \o (IF Class(op) = ALUClass THEN "32" ELSE ""))

C26_Witness ==
    /\ setter = "SetSource"
    /\ arg = BE
    /\ prev = opALU(Swap, ALU64Class)
    /\ Endianness(op) = BE
    /\ String(op) = "BSwap"

----------------------------------------------------------------------------
(* Sync beside the registry calls.  Sync holds the read lock while it      *)
(* looks the service up and collects its ports, releases it, and then      *)
(* upserts; the registry calls hold the write lock throughout.  One Sync   *)
(* runs at a time here, beside any number of registry calls.               *)

\* the ports GetAllFrontendPorts returns, sorted and without duplicates
GetAllFrontendPorts(l7lbInfo) ==
    UNION {Range(l7lbInfo.backendRefs[res].frontendPorts) :
               res \in DOMAIN l7lbInfo.backendRefs}

\* Sync from RLock to RUnlock, the service not in the registry: return nil
SyncUnknown ==
    /\ pcSync = "idle"
    /\ \E svcName \in Services :
           /\ svcName \notin DOMAIN l7lbSvcs
           /\ svcSync' = svcName
    /\ pcSync' = "idle"
    /\ frontendPortsSync' = {}
    /\ UNCHANGED <<upsert, l7lbSvcs, live, call, before>>
    /\ UNCHANGED <<opVars, resolverVars>>

\* Sync from RLock to RUnlock, the service in the registry
SyncLookup ==
    /\ pcSync = "idle"
    /\ \E svcName \in Services :
           /\ svcName \in DOMAIN l7lbSvcs
           /\ svcSync' = svcName
           /\ frontendPortsSync' = GetAllFrontendPorts(l7lbSvcs[svcName])
    /\ pcSync' = "upsert"
    /\ UNCHANGED <<upsert, l7lbSvcs, live, call, before>>
    /\ UNCHANGED <<opVars, resolverVars>>

\* Sync after RUnlock: upsertEnvoyEndpoints, then the return
SyncUpsert ==
    /\ pcSync = "upsert"
    /\ upsert' = [svcName |-> svcSync,
                  registered |-> svcSync \in DOMAIN l7lbSvcs,
                  afterDeregister |->
                      /\ call.name = "Deregister"
                      /\ call.svcName = svcSync
                      /\ call.ret]
    /\ pcSync' = "idle"
    /\ UNCHANGED <<svcSync, frontendPortsSync, l7lbSvcs, live, call, before>>
    /\ UNCHANGED <<opVars, resolverVars>>

SyncNext ==
    \/ RegisterServiceUsageInCEC
    \/ DeregisterServiceUsageInCEC
    \/ SyncUnknown
    \/ SyncLookup
    \/ SyncUpsert

SyncSpec == SyncerInit /\ [][SyncNext]_vars

----------------------------------------------------------------------------
(* C27 *)

\* C27 as stated: UpsertEnvoyResources is invoked for a service only while
\* the service is registered: never for a service absent from the
\* registry, and never when the last registry call was the
\* DeregisterServiceUsageInCEC that returned true for it.
C27_NoUpsertAfterDeregister ==
    /\ upsert.registered
    /\ ~upsert.afterDeregister

----------------------------------------------------------------------------
(* readNodeConfigsAllVersions (package resolver), called without a name:   *)
(* the CiliumNodeConfig objects of both versions are listed.  An object    *)
(* name is a string, here a sequence of digits compared position by        *)
(* position as slices.Sort compares strings.  The value an object gives a  *)
(* key names the version and the object, so that a value of the result     *)
(* tells where it came from.                                               *)

NodeConfigNames == {<<1>>, <<1, 0>>, <<2>>}
NodeConfigNamesAlpha == {<<1, 0>>, <<2>>}

NodeConfigKeys == {"k1", "bad/key"}

\* apivalidation.IsConfigMapKey: a key with a slash is not a ConfigMap key
IsConfigMapKey(k) == k # "bad/key"

\* what an object can be: absent, present with a selector that does not
\* match the node (or without one), or present and matching with any
\* Spec.Defaults, the empty one included
ObjectOptions ==
    {[present |-> FALSE, keys |-> {}, selected |-> FALSE],
     [present |-> TRUE, keys |-> {"k1"}, selected |-> FALSE]}
    \cup {[present |-> TRUE, keys |-> D, selected |-> TRUE] :
              D \in SUBSET NodeConfigKeys}

ItemsOf(version, choice) ==
    {[name |-> n,
      defaults |-> [k \in choice[n].keys |-> <<version, n>>],
      selected |-> choice[n].selected] :
         n \in {x \in DOMAIN choice : choice[x].present}}

\* the states of the API server for one version: the list call fails with
\* NotFound or with another error, or returns items; the Node read fails
\* or not
ApiStates(version, names) ==
    {[err |-> e, items |-> {}, nodeErr |-> FALSE] : e \in {"notfound", "other"}}
    \cup {[err |-> "none", items |-> ItemsOf(version, choice), nodeErr |-> ne] :
              choice \in [names -> ObjectOptions], ne \in BOOLEAN}

RECURSIVE LexLess(_, _)
LexLess(a, b) ==
    IF Len(a) = 0 THEN Len(b) > 0
    ELSE IF Len(b) = 0 THEN FALSE
         ELSE IF a[1] # b[1] THEN a[1] < b[1]
              ELSE LexLess(Tail(a), Tail(b))

\* slices.Sort(matchingNames)
RECURSIVE SortNames(_)
SortNames(S) ==
    IF S = {} THEN <<>>
    ELSE LET m == CHOOSE x \in S : \A y \in S : x = y \/ LexLess(x, y)
         IN <<m>> \o SortNames(S \ {m})

\* the inner loop keeping a key that is set already
applyDefaultsKeepsSet(out, defaults) ==
    [k \in DOMAIN out \cup {x \in DOMAIN defaults : IsConfigMapKey(x)} |->
        IF k \in DOMAIN out THEN out[k] ELSE defaults[k]]

\* the inner loop: out[k] = v for every key of the object that is a
\* ConfigMap key
applyDefaults(out, defaults) ==
    [k \in DOMAIN out \cup {x \in DOMAIN defaults : IsConfigMapKey(x)} |->
        IF k \in DOMAIN defaults /\ IsConfigMapKey(k) THEN defaults[k] ELSE out[k]]

\* the outer loop over the sorted names
RECURSIVE flatten(_, _, _)
flatten(names, items, out) ==
    IF Len(names) = 0 THEN out
    ELSE LET o == CHOOSE x \in items : x.name = Head(names)
         IN flatten(Tail(names), items, applyDefaults(out, o.defaults))

readNodeConfigs(api) ==
    IF api.err = "notfound" THEN NoNodeConfigs
    ELSE IF api.err = "other"
    THEN [isNil |-> TRUE, config |-> EmptyMap, descs |-> <<>>, err |-> TRUE]
    ELSE IF api.items = {} THEN NoNodeConfigs
    ELSE IF api.nodeErr
    THEN [isNil |-> TRUE, config |-> EmptyMap, descs |-> <<>>, err |-> TRUE]
    ELSE LET matching == {o \in api.items : DOMAIN o.defaults # {} /\ o.selected}
             matchingNames == SortNames({o.name : o \in matching})
         IN [isNil |-> FALSE,
             config |-> flatten(matchingNames, matching, EmptyMap),
             descs |-> matchingNames,
             err |-> FALSE]

\* maps.Copy(dst, src) keeping the values of dst
mapsCopyKeepsDst(dst, src) ==
    [k \in DOMAIN dst \cup DOMAIN src |->
        IF k \in DOMAIN dst THEN dst[k] ELSE src[k]]

\* maps.Copy(dst, src)
mapsCopy(dst, src) ==
    [k \in DOMAIN dst \cup DOMAIN src |->
        IF k \in DOMAIN src THEN src[k] ELSE dst[k]]

\* descv2 with the sources of descv2alpha1 it does not hold yet
RECURSIVE appendNew(_, _)
appendNew(descs, more) ==
    IF Len(more) = 0 THEN descs
    ELSE IF Head(more) \in Range(descs) THEN appendNew(descs, Tail(more))
         ELSE appendNew(Append(descs, Head(more)), Tail(more))

readNodeConfigsAllVersions(v2, v2alpha1) ==
    IF v2alpha1.err
    THEN [isNil |-> TRUE, config |-> EmptyMap, descs |-> <<>>, err |-> TRUE]
    ELSE [isNil |-> IF v2alpha1.isNil THEN v2.isNil ELSE FALSE,
          config |-> IF v2alpha1.isNil THEN v2.config
                     ELSE mapsCopy(v2alpha1.config, v2.config),
          descs |-> appendNew(v2.descs, v2alpha1.descs),
          err |-> FALSE]

NodeConfigInit ==
    /\ apiv2 = NoObjects
    /\ apiv2alpha1 = NoObjects
    /\ readv2 = NoNodeConfigs
    /\ readv2alpha1 = NoNodeConfigs
    /\ nodeConfigs = NoNodeConfigs
    /\ pcNode = "v2"
    /\ ResolveConfigurationsIdle
    /\ OpCodeIdle
    /\ SyncerIdle

\* the call of readNodeConfigs
ReadNodeConfigsV2 ==
    /\ pcNode = "v2"
    /\ \E api \in ApiStates("v2", NodeConfigNames) :
           /\ apiv2' = api
           /\ readv2' = readNodeConfigs(api)
    /\ pcNode' = "v2alpha1"
    /\ UNCHANGED <<apiv2alpha1, readv2alpha1, nodeConfigs>>
    /\ UNCHANGED <<sources, allowConfigKeys, denyConfigKeys, idx, first, config,
                   sourceDescriptions, read, rpc>>
    /\ UNCHANGED <<opVars, syncerVars>>

\* the call of readNodeConfigsv2alpha1
ReadNodeConfigsV2alpha1 ==
    /\ pcNode = "v2alpha1"
    /\ \E api \in ApiStates("v2alpha1", NodeConfigNamesAlpha) :
           /\ apiv2alpha1' = api
           /\ readv2alpha1' = readNodeConfigs(api)
    /\ pcNode' = "merge"
    /\ UNCHANGED <<apiv2, readv2, nodeConfigs>>
    /\ UNCHANGED <<sources, allowConfigKeys, denyConfigKeys, idx, first, config,
                   sourceDescriptions, read, rpc>>
    /\ UNCHANGED <<opVars, syncerVars>>

\* the rest of readNodeConfigsAllVersions, to its return
ReturnNodeConfigs ==
    /\ pcNode = "merge"
    /\ nodeConfigs' = readNodeConfigsAllVersions(readv2, readv2alpha1)
    /\ pcNode' = "done"
    /\ UNCHANGED <<apiv2, apiv2alpha1, readv2, readv2alpha1>>
    /\ UNCHANGED <<sources, allowConfigKeys, denyConfigKeys, idx, first, config,
                   sourceDescriptions, read, rpc>>
    /\ UNCHANGED <<opVars, syncerVars>>

NodeConfigNext ==
    \/ ReadNodeConfigsV2
    \/ ReadNodeConfigsV2alpha1
    \/ ReturnNodeConfigs

NodeConfigSpec == NodeConfigInit /\ [][NodeConfigNext]_vars

----------------------------------------------------------------------------
(* C28 *)

\* the objects of api that match the node and set key k
SettersOf(api, k) ==
    {o \in api.items : o.selected /\ k \in DOMAIN o.defaults}

\* the one of a set of objects whose name sorts last
LastNamed(S) == CHOOSE o \in S : \A x \in S : x = o \/ LexLess(x.name, o.name)

\* the part of the claim on readNodeConfigsAllVersions: a key of both
\* results has the v2 value, an error of the v2alpha1 read is returned, an
\* error of the v2 read alone is not and the v2alpha1 result is returned
AllVersionsPriority ==
    /\ ~nodeConfigs.err =>
           \A k \in DOMAIN readv2.config \cap DOMAIN readv2alpha1.config :
               nodeConfigs.config[k] = readv2.config[k]
    /\ readv2alpha1.err => nodeConfigs.err
    /\ (readv2.err /\ ~readv2alpha1.err) =>
           (/\ ~nodeConfigs.err
            /\ nodeConfigs.config = readv2alpha1.config
            /\ nodeConfigs.descs = readv2alpha1.descs)

\* C28 as stated: when several matching objects set the same key,
\* readNodeConfigs returns the value of the one whose name sorts last,
\* whatever the key.
C28_LastNameWinsEveryKey ==
    (pcNode = "done" /\ ~readv2.err /\ ~readv2.isNil) =>
        \A k \in NodeConfigKeys :
            Cardinality(SettersOf(apiv2, k)) >= 2 =>
                /\ k \in DOMAIN readv2.config
                /\ readv2.config[k] = LastNamed(SettersOf(apiv2, k)).defaults[k]

\* C28, amended: readNodeConfigs returns, for every key that is a valid
\* ConfigMap key and is set by a matching object, the value of the
\* matching object whose name sorts lexicographically last, and no other
\* key; readNodeConfigsAllVersions gives a key of both results the v2
\* value, always returns an error of the v2alpha1 read, and swallows an
\* error of the v2 read alone.
C28_NodeConfigPriority ==
    pcNode = "done" =>
        /\ (~readv2.err /\ ~readv2.isNil) =>
               \A k \in NodeConfigKeys :
                   IF IsConfigMapKey(k) /\ SettersOf(apiv2, k) # {}
                   THEN /\ k \in DOMAIN readv2.config
                        /\ readv2.config[k] =
                               LastNamed(SettersOf(apiv2, k)).defaults[k]
                   ELSE k \notin DOMAIN readv2.config
        /\ AllVersionsPriority

\* three matching v2 objects set k1, and "10" sorts before "2"; the
\* v2alpha1 objects set it too and lose to v2
C28_Witness ==
    /\ pcNode = "done"
    /\ Cardinality(SettersOf(apiv2, "k1")) = 3
    /\ Cardinality(SettersOf(apiv2alpha1, "k1")) = 2
    /\ readv2.descs = <<<<1>>, <<1, 0>>, <<2>>>>
    /\ readv2alpha1.config["k1"] = <<"v2alpha1", <<2>>>>
    /\ ~nodeConfigs.err
    /\ nodeConfigs.config["k1"] = <<"v2", <<2>>>>

====
